---- MODULE Spec2Model ----
(***************************************************************************)
(* Event batching and encoding core of metavision_ros_driver's DriverROS1  *)
(* (driver_ros1.h): the generic publish() ("Verbose", one record per       *)
(* event) and its EventArray2 specialisation ("Compact", one 64-bit word   *)
(* per event).                                                             *)
(*                                                                         *)
(* 64-bit unsigned quantities (uint64_t nanoseconds, packed words) are     *)
(* kept exactly, as four 16-bit limbs <<l0, l1, l2, l3>>, least            *)
(* significant first, so that the 32-bit mask of the Compact encoder and   *)
(* realistic wall-clock origins (about 1.7e18 ns) are computed at their    *)
(* true width.  A ros::Time is modelled by its nanosecond count.           *)
(***************************************************************************)
EXTENDS Integers, Sequences, FiniteSets, TLC

\* ------------------------------------------------------------------------
\* Bounds of the model (not program constants).
\* ------------------------------------------------------------------------
MaxEvents == 4
MaxSlice == 2
MaxScenarioEvents == 5

\* ------------------------------------------------------------------------
\* 64-bit unsigned arithmetic on 16-bit limbs.
\* ------------------------------------------------------------------------
Base == 2 ^ 16
Half == 2 ^ 15

U64Zero == <<0, 0, 0, 0>>

\* A small natural (below 2^31) as a uint64_t.
FromInt(n) == <<n % Base, (n \div Base) % Base, 0, 0>>

\* a + b modulo 2^64.
Add64(a, b) ==
  LET s1 == a[1] + b[1]
      s2 == a[2] + b[2] + (s1 \div Base)
      s3 == a[3] + b[3] + (s2 \div Base)
      s4 == a[4] + b[4] + (s3 \div Base)
  IN  <<s1 % Base, s2 % Base, s3 % Base, s4 % Base>>

\* a - b modulo 2^64 (an unsigned subtraction wraps instead of going negative).
Sub64(a, b) ==
  LET d1 == a[1] - b[1]
      b1 == IF d1 < 0 THEN 1 ELSE 0
      d2 == a[2] - b[2] - b1
      b2 == IF d2 < 0 THEN 1 ELSE 0
      d3 == a[3] - b[3] - b2
      b3 == IF d3 < 0 THEN 1 ELSE 0
      d4 == a[4] - b[4] - b3
  IN  <<d1 % Base, d2 % Base, d3 % Base, d4 % Base>>

\* a * m modulo 2^64, for a small multiplier m (m * 2^16 fits a machine int).
MulSmall(a, m) ==
  LET p1 == a[1] * m
      p2 == a[2] * m + (p1 \div Base)
      p3 == a[3] * m + (p2 \div Base)
      p4 == a[4] * m + (p3 \div Base)
  IN  <<p1 % Base, p2 % Base, p3 % Base, p4 % Base>>

\* a < b, a <= b as unsigned 64-bit numbers.
Lt64(a, b) ==
  \/ a[4] < b[4]
  \/ a[4] = b[4] /\ a[3] < b[3]
  \/ a[4] = b[4] /\ a[3] = b[3] /\ a[2] < b[2]
  \/ a[4] = b[4] /\ a[3] = b[3] /\ a[2] = b[2] /\ a[1] < b[1]

Le64(a, b) == ~Lt64(b, a)

RECURSIVE BitOr(_, _)
\* Bitwise OR of two naturals.
BitOr(a, b) ==
  IF a = 0 THEN b
  ELSE IF b = 0 THEN a
  ELSE (IF a % 2 = 1 \/ b % 2 = 1 THEN 1 ELSE 0) + 2 * BitOr(a \div 2, b \div 2)

\* Bitwise OR of two 64-bit words.
Or64(a, b) == <<BitOr(a[1], b[1]), BitOr(a[2], b[2]), BitOr(a[3], b[3]), BitOr(a[4], b[4])>>

\* v & 0xFFFFFFFF.
Mask32(v) == <<v[1], v[2], 0, 0>>

\* (uint64_t)v << 32, << 48, << 63 for a 16-bit (short) operand v: bits
\* shifted past bit 63 are lost.
Shl32(v) == <<0, 0, v % Base, 0>>
Shl48(v) == <<0, 0, 0, v % Base>>
Shl63(v) == <<0, 0, 0, (v % 2) * Half>>

RECURSIVE Log2(_)
\* floor(log2(n)) for n >= 1.
Log2(n) == IF n <= 1 THEN 0 ELSE 1 + Log2(n \div 2)

\* The IEEE-754 double nearest to the integer v (round to nearest, ties to
\* even), as an integer again.  Integers below 2^53 are exact; above, the
\* low k = floor(log2 v) - 52 bits are rounded away (k <= 11).
RoundDouble(v) ==
  IF v[4] < 32 THEN v
  ELSE LET k    == Log2(v[4]) - 4
           q    == 2 ^ k
           low  == v[1] % q
           down == Sub64(v, FromInt(low))
           odd  == (v[1] \div q) % 2 = 1
       IN  IF 2 * low > q \/ (2 * low = q /\ odd)
           THEN Add64(down, FromInt(q))
           ELSE down

\* ------------------------------------------------------------------------
\* Inputs.
\* ------------------------------------------------------------------------
\* Default of the message_time_threshold parameter, 100e-6 s, in nanoseconds.
DefaultThresholdNs == 100000

\* Readings of ros::Time::now().toNSec(): a wall-clock value (2023-11-14,
\* not a multiple of 256 ns), and 0, which simulated time reports until the
\* first clock message arrives.
WallClockNs == <<52501, 15749, 40190, 6039>>
NowValues == {U64Zero, WallClockNs}

\* Results of pub_.getNumSubscribers().
NumSubscribers == {0, 1}

\* Sensor timestamps (microseconds).  0 and 100 are exactly one default
\* threshold apart, 150 is past it, and 4294968 us = 2^32 + 704 ns.
TimeValues == {0, 100, 150, 4294968}
ScenarioTimeValues == {0, 40, 90, 100, 150}

\* Pixel and polarity of an event: an ordinary pixel, and one with every
\* bit of the 16-bit x field and of the 15-bit y field set.
Pixels == {[x |-> 6, y |-> 5, p |-> 0], [x |-> 65535, y |-> 32767, p |-> 1]}

\* Metavision::EventCD: x, y (unsigned short), p (polarity), t (us).
EventCD(times) == {[x |-> px.x, y |-> px.y, p |-> px.p, t |-> t] : px \in Pixels, t \in times}

\* The slices the sensor can deliver: one to MaxSlice events, timestamps
\* non-decreasing within the slice.
SensorSlices ==
  {s \in UNION {[1..n -> EventCD(TimeValues)] : n \in 1..MaxSlice} :
     \A i \in 1..(Len(s) - 1) : s[i].t <= s[i + 1].t}

\* The slices it can deliver next: not before the previous slice's last
\* timestamp, and within the budget of events.
Slices(from, room) == {s \in SensorSlices : s[1].t >= from /\ Len(s) <= room}

\* if (t0_ == 0) t0_ = ros::Time::now().toNSec();
\* Mutant: the clock read on every call, not only while t0_ is unset.
SetTimeBaseEveryCall(t0, now) == now

SetTimeBase(t0, now) == IF t0 = U64Zero THEN now ELSE t0

\* The values t0_ can have after that statement, over the clock's readings.
TimeBases(t0, clock) == {SetTimeBase(t0, now) : now \in clock}

\* ------------------------------------------------------------------------
\* State.
\* ------------------------------------------------------------------------
VARIABLES
  status,                 \* "constructing", "running", "failed" (start() returned false), "crashed"
  msgType,                \* template parameter MsgType: "Verbose" or "Compact"
  messageTimeThreshold_,  \* ros::Duration, nanoseconds
  reserveSize_,           \* how many events to preallocate per message
  t0_,                    \* time base (0 = unset)
  seq_,                   \* ROS sequence number
  msg_,                   \* the open message: <<>> (null pointer) or <<m>>
  eventCount,             \* totals passed to wrapper_->updateEventCount, per polarity
  eventsSent,             \* total passed to wrapper_->updateEventsSent
  msgsSent,               \* total passed to wrapper_->updateMsgsSent
  published,              \* messages handed to pub_.publish, in order
  accepted,               \* history: events encoded so far, with the t0_ used
  lastT,                  \* sensor: timestamp of the last event delivered
  delivered,              \* sensor: number of events delivered
  ub,                     \* number of calls that read outside a slice or a vector
  twin,                   \* a Compact driver fed the same calls (comparison of the variants)
  packIn,                 \* bit-packing harness: the fields to pack
  packOut                 \* bit-packing harness: <<>> or <<word>>

vars == <<status, msgType, messageTimeThreshold_, reserveSize_, t0_, seq_, msg_, eventCount,
          eventsSent, msgsSent, published, accepted, lastT, delivered, ub, twin, packIn,
          packOut>>

driverVars == <<status, msgType, messageTimeThreshold_, reserveSize_, t0_, seq_, msg_,
                eventCount, eventsSent, msgsSent, published, accepted, lastT, delivered, ub,
                twin>>

\* What a publish() call leaves alone.
configVars == <<status, msgType, messageTimeThreshold_, reserveSize_>>

\* ------------------------------------------------------------------------
\* Encoding.
\* ------------------------------------------------------------------------
\* Compact: t0_ + (uint64_t)(e.t * 1e3), integer arithmetic.
CompactNs(t0, t) == Add64(t0, MulSmall(FromInt(t), 1000))

\* Verbose: fromNSec(t0_ + e_src.t * 1e3).  The sum is computed in double
\* precision: t0_ is converted to double, the product is exact, and the sum
\* is rounded again before it is converted back to uint64_t.
VerboseNs(t0, t) == RoundDouble(Add64(RoundDouble(t0), MulSmall(FromInt(t), 1000)))

\* One Verbose event record.
EncodeVerbose(t0, e) == [x |-> e.x, y |-> e.y, polarity |-> e.p, ts |-> VerboseNs(t0, e.t)]

\* Mutant: the 32-bit mask left out.
CompactDtUnmasked(ts, t_base) == Sub64(ts, t_base)

\* dt = (ts - t_base) & 0xFFFFFFFFULL
CompactDt(ts, t_base) == Mask32(Sub64(ts, t_base))

\* Mutant: x and y in each other's field.
PackWordSwapped(e, dt) == Or64(Or64(Or64(Shl63(e.p), Shl48(e.x)), Shl32(e.y)), dt)

\* (uint64_t)e.p << 63 | (uint64_t)e.y << 48 | (uint64_t)e.x << 32 | dt
PackWord(e, dt) == Or64(Or64(Or64(Shl63(e.p), Shl48(e.y)), Shl32(e.x)), dt)

\* One Compact word.
EncodeCompact(t0, t_base, e) == PackWord(e, CompactDt(CompactNs(t0, e.t), t_base))

\* eventCount[e.p]++ over the slice.
CountPolarity(slice, p) == Cardinality({i \in 1..Len(slice) : slice[i].p = p})

\* Mutant: the comparison made inclusive (>= instead of >).
ShouldFlushInclusive(t_last, t_msg, threshold) == Le64(Add64(t_msg, FromInt(threshold)), t_last)

\* Mutant: the threshold taken in the wrong unit (a factor of 1000 too long).
ShouldFlushWrongUnit(t_last, t_msg, threshold) ==
  Lt64(Add64(t_msg, FromInt(threshold * 1000)), t_last)

\* Mutant: the two timestamps exchanged in the comparison.
ShouldFlushSwapped(t_last, t_msg, threshold) == Lt64(Add64(t_last, FromInt(threshold)), t_msg)

\* t_last > t_msg + messageTimeThreshold_
ShouldFlush(t_last, t_msg, threshold) == Lt64(Add64(t_msg, FromInt(threshold)), t_last)

\* A freshly allocated message of either type.
NewVerboseMsg(seq) == [seq |-> seq, stamp |-> U64Zero, events |-> <<>>]

\* Mutant: time_base set to the run's origin t0_ instead of the first event's
\* absolute timestamp.
NewCompactMsgRunOrigin(seq, t0, first) ==
  [seq |-> seq, time_base |-> t0, stamp |-> t0, p_y_x_t |-> <<>>, mseq |-> seq + 1]

NewCompactMsg(seq, t0, first) ==
  [seq |-> seq, time_base |-> CompactNs(t0, first.t), stamp |-> CompactNs(t0, first.t),
   p_y_x_t |-> <<>>, mseq |-> seq + 1]

\* The history entries of a slice's events: the raw event, the t0_ it was
\* converted with, and its position in the stream the sensor delivered.
Accepted(slice, t0) ==
  [i \in 1..Len(slice) |->
     [x |-> slice[i].x, y |-> slice[i].y, p |-> slice[i].p, t |-> slice[i].t, t0 |-> t0,
      pos |-> delivered + i]]

\* ------------------------------------------------------------------------
\* publish(): the steps shared by the actions below.
\* ------------------------------------------------------------------------
\* if (!msg_) { msg_.reset(new MsgType()); header.seq = seq_++; ... }
OpenVerbose(msg, seq) == IF msg = <<>> THEN NewVerboseMsg(seq) ELSE msg[1]

\* Mutant: time_base taken from the slice's last event instead of *start.
OpenCompactFromLast(msg, seq, t0, slice) ==
  IF msg = <<>> THEN NewCompactMsg(seq, t0, slice[Len(slice)]) ELSE msg[1]

OpenCompact(msg, seq, t0, slice) == IF msg = <<>> THEN NewCompactMsg(seq, t0, slice[1]) ELSE msg[1]

\* Mutant: seq_ advanced on every call, not only when a message is allocated.
SeqAfterEveryCall(msg, seq) == seq + 1

\* Mutant: the increment of seq_ left out of the allocation block.
SeqNeverAdvanced(msg, seq) == seq

\* seq_ after the allocation step.
SeqAfterOpen(msg, seq) == IF msg = <<>> THEN seq + 1 ELSE seq

\* Mutant: the slice copied back to front.
AppendVerboseReversed(m, t0, slice) ==
  [m EXCEPT !.events =
     @ \o [i \in 1..Len(slice) |-> EncodeVerbose(t0, slice[Len(slice) + 1 - i])]]

\* events.resize(old_size + n) and the copy loop.
AppendVerbose(m, t0, slice) ==
  [m EXCEPT !.events = @ \o [i \in 1..Len(slice) |-> EncodeVerbose(t0, slice[i])]]

AppendCompact(m, t0, slice) ==
  [m EXCEPT !.p_y_x_t = @ \o [i \in 1..Len(slice) |-> EncodeCompact(t0, m.time_base, slice[i])]]

\* Mutant: t_last read from events.begin() like t_msg.
VerboseFlushFromBegin(m, threshold) ==
  ShouldFlush(m.events[1].ts, m.events[1].ts, threshold)

\* Verbose: t_msg and t_last are read from the message's first and last event.
VerboseFlush(m, threshold) ==
  ShouldFlush(m.events[Len(m.events)].ts, m.events[1].ts, threshold)

\* Mutant: t_last taken from the slice's first event (start->t) instead of
\* its last (start[n - 1].t).
CompactFlushFromFirst(m, t0, slice, threshold) ==
  ShouldFlush(CompactNs(t0, slice[1].t), m.stamp, threshold)

\* Compact: t_last is recomputed from the slice's last event, and compared
\* with the header stamp.
CompactFlush(m, t0, slice, threshold) ==
  ShouldFlush(CompactNs(t0, slice[Len(slice)].t), m.stamp, threshold)

\* Mutant: the two polarities' counts reported to each other's counter.
UpdateEventCountSwapped(counts, slice) ==
  [p \in {0, 1} |-> counts[p] + CountPolarity(slice, 1 - p)]

\* wrapper_->updateEventCount(0, eventCount[0]); updateEventCount(1, eventCount[1]);
UpdateEventCount(counts, slice) ==
  [p \in {0, 1} |-> counts[p] + CountPolarity(slice, p)]

\* The sensor hands over a slice: it advances its clock and its budget.
Deliver(slice) ==
  /\ lastT' = slice[Len(slice)].t
  /\ delivered' = delivered + Len(slice)

\* ------------------------------------------------------------------------
\* DriverROS1<MsgType>::publish(start, end), generic version.
\* ------------------------------------------------------------------------
VerboseCall(slice, nsub, t0) ==
  LET m == AppendVerbose(OpenVerbose(msg_, seq_), t0, slice)
  IN  /\ t0_' = t0
      /\ Deliver(slice)
      /\ IF nsub = 0
         THEN UNCHANGED <<seq_, msg_, eventCount, eventsSent, msgsSent, published, accepted>>
         ELSE /\ seq_' = SeqAfterOpen(msg_, seq_)
              /\ eventCount' = UpdateEventCount(eventCount, slice)
              /\ accepted' = accepted \o Accepted(slice, t0)
              /\ IF VerboseFlush(m, messageTimeThreshold_)
                 THEN /\ published' = Append(published, [m EXCEPT !.stamp = m.events[1].ts])
                      /\ eventsSent' = eventsSent + Len(m.events)
                      /\ msgsSent' = msgsSent + 1
                      /\ msg_' = <<>>
                 ELSE /\ msg_' = <<m>>
                      /\ UNCHANGED <<published, eventsSent, msgsSent>>
      /\ UNCHANGED <<configVars, ub, packIn, packOut>>

\* ------------------------------------------------------------------------
\* DriverROS1<event_array2_msgs::EventArray2>::publish(start, end).
\* ------------------------------------------------------------------------
CompactCall(slice, nsub, t0) ==
  LET m == AppendCompact(OpenCompact(msg_, seq_, t0, slice), t0, slice)
  IN  /\ t0_' = t0
      /\ Deliver(slice)
      /\ IF nsub = 0
         THEN UNCHANGED <<seq_, msg_, eventCount, eventsSent, msgsSent, published, accepted>>
         ELSE /\ seq_' = SeqAfterOpen(msg_, seq_)
              /\ eventCount' = UpdateEventCount(eventCount, slice)
              /\ accepted' = accepted \o Accepted(slice, t0)
              /\ IF CompactFlush(m, t0, slice, messageTimeThreshold_)
                 THEN /\ eventsSent' = eventsSent + Len(m.p_y_x_t)
                      /\ msgsSent' = msgsSent + 1
                      /\ published' = Append(published, m)
                      /\ msg_' = <<>>
                 ELSE /\ msg_' = <<m>>
                      /\ UNCHANGED <<published, eventsSent, msgsSent>>
      /\ UNCHANGED <<configVars, ub, packIn, packOut>>

\* The sensor calls publish() with its next slice; the transport reports
\* some number of subscribers and the clock some reading.
PublishVerbose ==
  /\ status = "running"
  /\ msgType = "Verbose"
  /\ delivered < MaxEvents
  /\ \E slice \in Slices(lastT, MaxEvents - delivered), nsub \in NumSubscribers,
        t0 \in TimeBases(t0_, NowValues) :
       VerboseCall(slice, nsub, t0)
  /\ UNCHANGED twin

PublishCompact ==
  /\ status = "running"
  /\ msgType = "Compact"
  /\ delivered < MaxEvents
  /\ \E slice \in Slices(lastT, MaxEvents - delivered), nsub \in NumSubscribers,
        t0 \in TimeBases(t0_, NowValues) :
       CompactCall(slice, nsub, t0)
  /\ UNCHANGED twin

NoPack == [x |-> 0, y |-> 0, p |-> 0, dt |-> U64Zero]

\* reserveSize_ = (size_t)(sensors_max_mevs / std::max(mtt, 1e-6)), with mtt
\* given in microseconds.
ReserveSize(mevs, mttUs) == (mevs * 1000000) \div (IF mttUs > 1 THEN mttUs ELSE 1)

\* Default of the sensors_max_mevs parameter.
DefaultMaxMevs == 50

\* The member initialisers: t0_{0}, seq_{0}, a null msg_; nothing sent yet.
MemberInit ==
  /\ t0_ = U64Zero
  /\ seq_ = 0
  /\ msg_ = <<>>
  /\ eventCount = [p \in {0, 1} |-> 0]
  /\ eventsSent = 0
  /\ msgsSent = 0
  /\ published = <<>>
  /\ accepted = <<>>
  /\ lastT = 0
  /\ delivered = 0
  /\ ub = 0
  /\ twin = [t0_ |-> U64Zero, seq_ |-> 0, msg_ |-> <<>>, published |-> <<>>]

\* The state after construction (start() has read the default parameters).
DriverInit ==
  /\ status = "running"
  /\ msgType \in {"Verbose", "Compact"}
  /\ messageTimeThreshold_ = DefaultThresholdNs
  /\ reserveSize_ = ReserveSize(DefaultMaxMevs, DefaultThresholdNs \div 1000)
  /\ MemberInit

Init ==
  /\ DriverInit
  /\ packIn = NoPack
  /\ packOut = <<>>

Next == PublishVerbose \/ PublishCompact

Spec == Init /\ [][Next]_vars

\* ------------------------------------------------------------------------
\* The scenario of the specification's section 8: a subscriber is present
\* throughout, the clock is running (wall-clock time), and the sensor
\* delivers one event (x = 5, y = 5, polarity 0) per call.
\* ------------------------------------------------------------------------
ScenarioPublish ==
  /\ status = "running"
  /\ delivered < MaxScenarioEvents
  /\ UNCHANGED twin
  /\ \E t \in ScenarioTimeValues, t0 \in TimeBases(t0_, NowValues \ {U64Zero}) :
       /\ t >= lastT
       /\ LET slice == <<[x |-> 5, y |-> 5, p |-> 0, t |-> t]>>
          IN  \/ msgType = "Verbose" /\ VerboseCall(slice, 1, t0)
              \/ msgType = "Compact" /\ CompactCall(slice, 1, t0)

NextScenario == ScenarioPublish

SpecScenario == Init /\ [][NextScenario]_vars

\* ------------------------------------------------------------------------
\* The Compact word on its own: the fields are drawn from the corners of
\* their ranges (y also from beyond its 15 bits) and packed once.
\* ------------------------------------------------------------------------
PackInputs ==
  {[x |-> x, y |-> y, p |-> p, dt |-> dt] :
     x \in {0, 5, 255, 65535},
     y \in {0, 5, 16384, 32767, 32768, 65535},
     p \in {0, 1},
     dt \in {U64Zero, <<704, 0, 0, 0>>, <<65535, 0, 0, 0>>, <<0, 1, 0, 0>>, <<65535, 65535, 0, 0>>}}

InitPack ==
  /\ DriverInit
  /\ packIn \in PackInputs
  /\ packOut = <<>>

PackStep ==
  /\ packOut = <<>>
  /\ packOut' = <<PackWord(packIn, packIn.dt)>>
  /\ UNCHANGED <<driverVars, packIn>>

NextPack == PackStep

SpecPack == InitPack /\ [][NextPack]_vars

\* ------------------------------------------------------------------------
\* Construction: the constructor calls start(), which reads the parameters,
\* initialises the camera and starts it; the constructor throws if start()
\* returns false.
\* ------------------------------------------------------------------------

\* Values of the message_time_threshold parameter, in microseconds: zero and
\* the default.
ThresholdParamsUs == {0, DefaultThresholdNs \div 1000}

\* Values of the sensors_max_mevs parameter: zero and the default.
MaxMevsParams == {0, DefaultMaxMevs}

\* The object before the constructor body runs: members at their initialisers.
InitStart ==
  /\ status = "constructing"
  /\ msgType \in {"Verbose", "Compact"}
  /\ messageTimeThreshold_ = 0
  /\ reserveSize_ = 0
  /\ MemberInit
  /\ packIn = NoPack
  /\ packOut = <<>>

\* start(): the two parameters are stored as read; the only failure is
\* wrapper_->initialize() returning false (initOk = FALSE).
Start ==
  /\ status = "constructing"
  /\ \E mttUs \in ThresholdParamsUs, mevs \in MaxMevsParams, initOk \in BOOLEAN :
       /\ messageTimeThreshold_' = mttUs * 1000
       /\ reserveSize_' = ReserveSize(mevs, mttUs)
       /\ status' = IF initOk THEN "running" ELSE "failed"
  /\ UNCHANGED <<msgType, t0_, seq_, msg_, eventCount, eventsSent, msgsSent, published,
                 accepted, lastT, delivered, ub, twin, packIn, packOut>>

NextStart == Start \/ PublishVerbose \/ PublishCompact

SpecStart == InitStart /\ [][NextStart]_vars

\* ------------------------------------------------------------------------
\* publish(start, end) with start == end.  Neither version tests n: the
\* reads of the first and last event then fall outside the slice (Compact:
\* *start and start[n - 1]) or outside the message's vector (Verbose:
\* events.begin() and events.rbegin() of an empty vector).  What such a read
\* yields is not defined: any value, or a crash.
\* ------------------------------------------------------------------------
MaxEmptyCalls == 1

\* Event times (microseconds) a read outside the slice may yield.
StrayTimes == {0, 4294968}

\* Events a read outside the slice may yield.
StrayEvents == EventCD(StrayTimes)

\* Timestamps a read outside the vector may yield.
StrayStamps == {CompactNs(U64Zero, t) : t \in StrayTimes}

\* Generic version, n = 0: events.resize() and the loop do nothing, the
\* counters are reported with increments of zero.
VerboseEmptyCall(nsub, t0, t_msg, t_last, crash) ==
  LET m == OpenVerbose(msg_, seq_)
  IN  /\ t0_' = t0
      /\ IF nsub = 0
         THEN UNCHANGED <<status, seq_, msg_, eventsSent, msgsSent, published, ub>>
         ELSE /\ seq_' = SeqAfterOpen(msg_, seq_)
              /\ IF m.events = <<>>
                 THEN /\ ub' = ub + 1
                      /\ status' = IF crash THEN "crashed" ELSE status
                      /\ IF ~crash /\ ShouldFlush(t_last, t_msg, messageTimeThreshold_)
                         THEN /\ published' = Append(published, [m EXCEPT !.stamp = t_msg])
                              /\ msgsSent' = msgsSent + 1
                              /\ msg_' = <<>>
                         ELSE /\ msg_' = <<m>>
                              /\ UNCHANGED <<published, msgsSent>>
                      /\ UNCHANGED eventsSent
                 ELSE /\ IF VerboseFlush(m, messageTimeThreshold_)
                         THEN /\ published' = Append(published, [m EXCEPT !.stamp = m.events[1].ts])
                              /\ eventsSent' = eventsSent + Len(m.events)
                              /\ msgsSent' = msgsSent + 1
                              /\ msg_' = <<>>
                         ELSE /\ msg_' = <<m>>
                              /\ UNCHANGED <<published, eventsSent, msgsSent>>
                      /\ UNCHANGED <<status, ub>>
      /\ UNCHANGED <<msgType, messageTimeThreshold_, reserveSize_, eventCount, accepted, lastT,
                     delivered, packIn, packOut>>

\* Compact version, n = 0: a new message takes its time_base from *start
\* (first), and t_last is always read from start[n - 1] (last).
CompactEmptyCall(nsub, t0, first, last, crash) ==
  LET m == OpenCompact(msg_, seq_, t0, <<first>>)
  IN  /\ t0_' = t0
      /\ IF nsub = 0
         THEN UNCHANGED <<status, seq_, msg_, eventsSent, msgsSent, published, ub>>
         ELSE /\ seq_' = SeqAfterOpen(msg_, seq_)
              /\ ub' = ub + 1
              /\ status' = IF crash THEN "crashed" ELSE status
              /\ IF ~crash /\ CompactFlush(m, t0, <<last>>, messageTimeThreshold_)
                 THEN /\ eventsSent' = eventsSent + Len(m.p_y_x_t)
                      /\ msgsSent' = msgsSent + 1
                      /\ published' = Append(published, m)
                      /\ msg_' = <<>>
                 ELSE /\ msg_' = <<m>>
                      /\ UNCHANGED <<published, eventsSent, msgsSent>>
      /\ UNCHANGED <<msgType, messageTimeThreshold_, reserveSize_, eventCount, accepted, lastT,
                     delivered, packIn, packOut>>

PublishEmptyVerbose ==
  /\ status = "running"
  /\ msgType = "Verbose"
  /\ ub < MaxEmptyCalls
  /\ \E nsub \in NumSubscribers, t0 \in TimeBases(t0_, NowValues),
        t_msg \in StrayStamps, t_last \in StrayStamps, crash \in BOOLEAN :
       VerboseEmptyCall(nsub, t0, t_msg, t_last, crash)
  /\ UNCHANGED twin

PublishEmptyCompact ==
  /\ status = "running"
  /\ msgType = "Compact"
  /\ ub < MaxEmptyCalls
  /\ \E nsub \in NumSubscribers, t0 \in TimeBases(t0_, NowValues),
        first \in StrayEvents, last \in StrayEvents, crash \in BOOLEAN :
       CompactEmptyCall(nsub, t0, first, last, crash)
  /\ UNCHANGED twin

NextEmpty == PublishVerbose \/ PublishCompact \/ PublishEmptyVerbose \/ PublishEmptyCompact

SpecEmpty == Init /\ [][NextEmpty]_vars

\* ------------------------------------------------------------------------
\* The two versions side by side: a generic (Verbose) driver in the driver
\* variables and a Compact driver in twin, both given the same calls, the
\* same subscriber count and the same clock reading.
\* ------------------------------------------------------------------------

\* DriverROS1<event_array2_msgs::EventArray2>::publish(start, end) as a
\* function of the members it reads and writes.
TwinCompactCall(d, slice, nsub, t0) ==
  LET m == AppendCompact(OpenCompact(d.msg_, d.seq_, t0, slice), t0, slice)
  IN  IF nsub = 0
      THEN [d EXCEPT !.t0_ = t0]
      ELSE IF CompactFlush(m, t0, slice, messageTimeThreshold_)
           THEN [t0_ |-> t0, seq_ |-> SeqAfterOpen(d.msg_, d.seq_), msg_ |-> <<>>,
                 published |-> Append(d.published, m)]
           ELSE [t0_ |-> t0, seq_ |-> SeqAfterOpen(d.msg_, d.seq_), msg_ |-> <<m>>,
                 published |-> d.published]

PairPublish ==
  /\ status = "running"
  /\ msgType = "Verbose"
  /\ delivered < MaxEvents
  /\ \E slice \in Slices(lastT, MaxEvents - delivered), nsub \in NumSubscribers,
        t0 \in TimeBases(t0_, NowValues) :
       /\ VerboseCall(slice, nsub, t0)
       /\ twin' = TwinCompactCall(twin, slice, nsub, t0)

InitPair == Init /\ msgType = "Verbose"

NextPair == PairPublish

SpecPair == InitPair /\ [][NextPair]_vars

\* ------------------------------------------------------------------------
\* A sensor that keeps delivering while somebody subscribes: every call
\* brings one event later than the previous one.  The run is followed until
\* the sensor's time has passed LiveHorizon and no batch is open; an open
\* batch is followed for LiveSlack microseconds more.
\* ------------------------------------------------------------------------
LiveHorizon == 200

\* By how much (microseconds) the next event is later than the previous one.
LiveSteps == {50, 100}

\* Twice the longest of LiveSteps.
LiveSlack == 200

\* The event that follows an event at time from: always the same pixel.
LiveEvents(from) == {[x |-> 6, y |-> 5, p |-> 0, t |-> from + d] : d \in LiveSteps}

\* The sensor has a next event to deliver.
SensorRuns ==
  /\ status = "running"
  /\ lastT <= LiveHorizon \/ (msg_ # <<>> /\ lastT <= LiveHorizon + LiveSlack)

LivePublish ==
  /\ SensorRuns
  /\ \E e \in LiveEvents(lastT), t0 \in TimeBases(t0_, NowValues) :
       IF msgType = "Verbose" THEN VerboseCall(<<e>>, 1, t0) ELSE CompactCall(<<e>>, 1, t0)
  /\ UNCHANGED twin

NextLive == LivePublish

\* A delivery, seen from the sensor: one more event handed to publish().
SensorDelivers == SensorRuns /\ delivered' = delivered + 1

\* The sensor thread calls publish() for as long as the camera runs: a
\* sensor that has a next event does deliver it.
SpecLive == Init /\ [][NextLive]_vars /\ WF_delivered(SensorDelivers)

\* ------------------------------------------------------------------------
\* Vocabulary of the properties.
\* ------------------------------------------------------------------------
IsVerbose == msgType = "Verbose"
IsCompact == msgType = "Compact"

\* The encoded events of a message of the running variant.
Events(m) == IF IsVerbose THEN m.events ELSE m.p_y_x_t

\* Every batch created so far, in creation order: the emitted ones, then the
\* open one if there is one.
Batches == published \o msg_

RECURSIVE Offset(_, _)
\* The number of events in the batches before the k-th.
Offset(bs, k) == IF k <= 1 THEN 0 ELSE Offset(bs, k - 1) + Len(Events(bs[k - 1]))

\* The absolute timestamp of an accepted event: origin + t * 1000, exactly.
ExactNs(a) == Add64(a.t0, MulSmall(FromInt(a.t), 1000))

\* The fields of a Compact word: bit 63, bits 62-48, bits 47-32, bits 31-0.
UnpackPolarity(w) == w[4] \div Half
UnpackY(w) == w[4] % Half
UnpackX(w) == w[3]
UnpackDt(w) == <<w[1], w[2], 0, 0>>

\* The encoded event enc carries the pixel and polarity of the accepted event a.
SamePixel(enc, a) ==
  IF IsVerbose
  THEN enc.x = a.x /\ enc.y = a.y /\ enc.polarity = a.p
  ELSE UnpackX(enc) = a.x /\ UnpackY(enc) = a.y /\ UnpackPolarity(enc) = a.p

\* Two timestamps less than a double's rounding step (at most 2^11 below
\* 2^64) apart.
Near(a, b) == Lt64(Sub64(a, b), FromInt(2 ^ 11)) \/ Lt64(Sub64(b, a), FromInt(2 ^ 11))

\* The encoded event enc of batch b is the accepted event a: same pixel and
\* polarity, and the same time (Compact: modulo 2^32 from the time base).
SameEvent(b, enc, a) ==
  /\ SamePixel(enc, a)
  /\ IF IsVerbose
     THEN Near(enc.ts, ExactNs(a))
     ELSE Mask32(Add64(b.time_base, UnpackDt(enc))) = Mask32(ExactNs(a))

Threshold == FromInt(messageTimeThreshold_)

\* ------------------------------------------------------------------------
\* C1.  In every publish call with a subscriber and a non-empty slice, the
\* open batch is emitted during the call if and only if the absolute
\* timestamp of the slice's last event is strictly greater than the batch's
\* stamp plus messageTimeThreshold_; an emitted batch ends with all events
\* of the slice, and no batch is open when the call returns.  (Verbose: the
\* stamp is the first event's timestamp and timestamps are the stored ones.)
\* ------------------------------------------------------------------------
C1_Step ==
  accepted' # accepted =>
    LET n       == Len(accepted') - Len(accepted)
        emitted == published' # published
        b       == IF emitted THEN published'[Len(published')] ELSE msg_'[1]
        evs     == IF IsVerbose THEN b.events ELSE b.p_y_x_t
        stamp   == IF IsVerbose THEN b.events[1].ts ELSE b.stamp
        last    == IF IsVerbose THEN b.events[Len(b.events)].ts
                   ELSE ExactNs(accepted'[Len(accepted')])
    IN  /\ emitted <=> Lt64(Add64(stamp, Threshold), last)
        /\ emitted =>
             /\ Len(published') = Len(published) + 1
             /\ msg_' = <<>>
             /\ Len(evs) >= n
             /\ \A i \in 1..n :
                  SamePixel(evs[Len(evs) - n + i], accepted'[Len(accepted) + i])
        /\ ~emitted => msg_' # <<>> /\ published' = published

C1_FlushIffLastExceeds == [][C1_Step]_vars

\* A batch of several events has been emitted and none is open.
C1_Witness ==
  /\ published # <<>>
  /\ Len(Events(published[Len(published)])) >= 2
  /\ msg_ = <<>>

\* The history entry of the i-th event of the k-th batch of bs.
Source(bs, k, i) == accepted[Offset(bs, k) + i]

\* The reference a batch's span is measured from: the first event's
\* timestamp (Verbose) or the header stamp set when it was opened (Compact).
BatchStamp(b) == IF IsVerbose THEN b.events[1].ts ELSE b.stamp

\* The absolute timestamp of the i-th event of the k-th batch: as stored
\* (Verbose), or origin + t * 1000 (Compact, whose words keep only dt).
EventNs(bs, k, i) == IF IsVerbose THEN bs[k].events[i].ts ELSE ExactNs(Source(bs, k, i))

\* The k-th batch was due for a flush at its i-th event, strictly / inclusively.
Exceeds(bs, k, i) == Lt64(Add64(BatchStamp(bs[k]), Threshold), EventNs(bs, k, i))
Reaches(bs, k, i) == Le64(Add64(BatchStamp(bs[k]), Threshold), EventNs(bs, k, i))

\* ------------------------------------------------------------------------
\* C2 as stated.  With t0 the timestamp of a batch's first event: no flush
\* occurs for an event with timestamp < t0 + T, and a flush occurs on the
\* first event with timestamp >= t0 + T.  So an emitted batch ends at or
\* past t0 + T, and an open batch holds no event at or past t0 + T.
\* ------------------------------------------------------------------------
C2_Original ==
  /\ \A k \in 1..Len(published) : Reaches(published, k, Len(Events(published[k])))
  /\ \A i \in 1..(IF msg_ = <<>> THEN 0 ELSE Len(Events(msg_[1]))) :
       ~Reaches(Batches, Len(Batches), i)

\* ------------------------------------------------------------------------
\* C2 as amended.  No flush occurs in a call whose slice ends at a timestamp
\* <= t0 + T, and the batch is flushed by the first call whose slice ends
\* at a timestamp > t0 + T, with the events of that slice included: every
\* emitted batch ends strictly past t0 + T, and no event of a batch left
\* open by a call is past t0 + T (so no earlier call was due to flush it).
\* ------------------------------------------------------------------------
C2_FlushOnFirstStrictlyPast ==
  /\ \A k \in 1..Len(published) : Exceeds(published, k, Len(Events(published[k])))
  /\ \A i \in 1..(IF msg_ = <<>> THEN 0 ELSE Len(Events(msg_[1]))) :
       ~Exceeds(Batches, Len(Batches), i)

\* A batch took an event exactly at t0 + T without being flushed, and was
\* flushed by a later event.
C2_Witness ==
  \E k \in 1..Len(published) :
    \E i \in 1..Len(Events(published[k])) :
      /\ Reaches(published, k, i)
      /\ ~Exceeds(published, k, i)

\* ------------------------------------------------------------------------
\* The scenario: threshold 100 us, events at 0, 40, 90, 150 us, one per call.
\* ------------------------------------------------------------------------
ScenarioPrefix ==
  /\ messageTimeThreshold_ = 100000
  /\ Len(accepted) >= 4
  /\ <<accepted[1].t, accepted[2].t, accepted[3].t, accepted[4].t>> = <<0, 40, 90, 150>>

\* ------------------------------------------------------------------------
\* C3 as stated.  In the scenario the first emitted batch contains exactly
\* the events at 0, 40 and 90, the second batch opens with the 150 event,
\* and its sequence number is the first one's plus 1.
\* ------------------------------------------------------------------------
C3_Original ==
  ScenarioPrefix =>
    /\ published # <<>>
    /\ Len(Events(published[1])) = 3
    /\ Len(Batches) >= 2
    /\ Source(Batches, 2, 1).t = 150
    /\ Batches[2].seq = Batches[1].seq + 1

\* ------------------------------------------------------------------------
\* C3 as amended.  In the scenario the first emitted batch contains exactly
\* the events at 0, 40, 90 and 150 (the 150 event exceeds the threshold and
\* is included in the batch it flushes); no batch is open after the fourth
\* call; the batch opened by the next event starts with that event and
\* carries the first batch's sequence number plus 1.
\* ------------------------------------------------------------------------
C3_ScenarioFirstBatch ==
  ScenarioPrefix =>
    /\ published # <<>>
    /\ Len(Events(published[1])) = 4
    /\ \A i \in 1..4 : SameEvent(published[1], Events(published[1])[i], accepted[i])
    /\ Len(accepted) = 4 => msg_ = <<>>
    /\ Len(Batches) >= 2 =>
         /\ Offset(Batches, 2) = 4
         /\ Batches[2].seq = published[1].seq + 1

\* The four events were delivered and a fifth has opened the second batch.
C3_Witness ==
  /\ ScenarioPrefix
  /\ Len(Batches) >= 2
  /\ Len(Events(published[1])) = 4

\* ------------------------------------------------------------------------
\* C4.  The header sequence numbers of successively emitted batches increase
\* by exactly 1, the first emitted batch carrying 0, whatever the slices and
\* the subscriber presence were.
\* ------------------------------------------------------------------------
C4_SeqConsecutive ==
  /\ published # <<>> => published[1].seq = 0
  /\ \A k \in 1..(Len(published) - 1) : published[k + 1].seq = published[k].seq + 1

\* Two batches were emitted, the second one carrying 1.
C4_Witness ==
  /\ Len(published) >= 2
  /\ published[2].seq = 1

\* ------------------------------------------------------------------------
\* C5.  Every accepted event appears exactly once, in one batch, and the
\* emitted batches followed by the open batch hold the accepted events in
\* arrival order: nothing is reordered, dropped or duplicated.
\* ------------------------------------------------------------------------
C5_ArrivalOrderKept ==
  /\ Offset(Batches, Len(Batches) + 1) = Len(accepted)
  /\ \A k \in 1..Len(Batches) :
       \A i \in 1..Len(Events(Batches[k])) :
         /\ Offset(Batches, k) + i <= Len(accepted)
         /\ SameEvent(Batches[k], Events(Batches[k])[i], Source(Batches, k, i))

\* A batch was emitted, another is open with two events that differ in
\* pixel, polarity and time.
C5_Witness ==
  /\ published # <<>>
  /\ msg_ # <<>>
  /\ Len(Events(msg_[1])) >= 2
  /\ accepted[Len(accepted) - 1].x # accepted[Len(accepted)].x
  /\ accepted[Len(accepted) - 1].t # accepted[Len(accepted)].t

\* ------------------------------------------------------------------------
\* C6.  Compact: the time_base and the header stamp of every batch equal the
\* absolute timestamp t0 + t * 1000 of the batch's own first event; they are
\* set when the batch is opened and no later append changes them.
\* ------------------------------------------------------------------------
C6_TimeBaseIsFirstEvent ==
  IsCompact =>
    \A k \in 1..Len(Batches) :
      /\ Batches[k].time_base = ExactNs(Source(Batches, k, 1))
      /\ Batches[k].stamp = Batches[k].time_base

C6_TimeBaseKept ==
  IsCompact =>
    /\ \A k \in 1..Len(published) : published'[k] = published[k]
    /\ (msg_ # <<>> /\ msg_' # <<>>) =>
         /\ msg_'[1].time_base = msg_[1].time_base
         /\ msg_'[1].stamp = msg_[1].stamp
    /\ (msg_ # <<>> /\ msg_' = <<>> /\ published' # published) =>
         /\ published'[Len(published')].time_base = msg_[1].time_base
         /\ published'[Len(published')].stamp = msg_[1].stamp

C6_TimeBasePerBatch == []C6_TimeBaseIsFirstEvent /\ [][C6_TimeBaseKept]_vars

\* Two Compact batches with different time bases, the second one holding
\* a later event besides its first.
C6_Witness ==
  /\ IsCompact
  /\ Len(Batches) >= 2
  /\ Batches[2].time_base # Batches[1].time_base
  /\ Len(Batches[2].p_y_x_t) >= 2
  /\ Source(Batches, 2, 1).t # Source(Batches, 2, 2).t

\* ------------------------------------------------------------------------
\* C7.  The per-polarity counters equal the numbers of accepted events of
\* polarity 0 and 1, however the events were sliced and however many batches
\* they span, and they never decrease.
\* ------------------------------------------------------------------------
AcceptedOfPolarity(p) == Cardinality({i \in 1..Len(accepted) : accepted[i].p = p})

C7_CountsMatch == \A p \in {0, 1} : eventCount[p] = AcceptedOfPolarity(p)

C7_CountsGrow == \A p \in {0, 1} : eventCount'[p] >= eventCount[p]

C7_PolarityCounters == []C7_CountsMatch /\ [][C7_CountsGrow]_vars

\* Events of both polarities, unevenly many, spread over two batches.
C7_Witness ==
  /\ eventCount[0] = 1
  /\ eventCount[1] >= 2
  /\ Len(Batches) >= 2

\* ------------------------------------------------------------------------
\* C8.  Compact, timestamps non-decreasing over the delivered stream: every
\* event appended to a batch has an absolute timestamp >= the batch's
\* time_base, so ts - time_base never underflows, also when slices were
\* discarded for lack of a subscriber while the batch was open.
\* ------------------------------------------------------------------------
C8_NoUnderflow ==
  IsCompact =>
    \A k \in 1..Len(Batches) :
      \A i \in 1..Len(Batches[k].p_y_x_t) :
        Le64(Batches[k].time_base, ExactNs(Source(Batches, k, i)))

\* A single Compact batch holds events from before and after a slice that
\* was discarded while it was open.
C8_Witness ==
  /\ IsCompact
  /\ Len(Batches) = 1
  /\ \E j \in 1..(Len(accepted) - 1) : accepted[j + 1].pos > accepted[j].pos + 1

\* ------------------------------------------------------------------------
\* C9.  For x < 2^16, y < 2^15, polarity in {0, 1} and dt < 2^32, the word
\* polarity<<63 | y<<48 | x<<32 | dt unpacks (bit 63, bits 62-48, bits
\* 47-32, bits 31-0) to the original polarity, y, x and dt.
\* ------------------------------------------------------------------------
C9_PackRoundTrip ==
  (packOut # <<>> /\ packIn.x < 2 ^ 16 /\ packIn.y < 2 ^ 15 /\ packIn.p \in {0, 1}
     /\ packIn.dt[3] = 0 /\ packIn.dt[4] = 0) =>
    /\ UnpackPolarity(packOut[1]) = packIn.p
    /\ UnpackY(packOut[1]) = packIn.y
    /\ UnpackX(packOut[1]) = packIn.x
    /\ UnpackDt(packOut[1]) = packIn.dt

\* The largest value of every field has been packed.
C9_Witness ==
  /\ packOut # <<>>
  /\ packIn = [x |-> 65535, y |-> 32767, p |-> 1, dt |-> <<65535, 65535, 0, 0>>]

\* ------------------------------------------------------------------------
\* C10.  Compact: the stored dt of every event is (absolute timestamp -
\* time_base) mod 2^32, so a true delta of 2^32 + k is stored as k, and the
\* wrapped delta leaves the x, y and polarity bits of the word intact.
\* ------------------------------------------------------------------------
C10_DtWraps ==
  IsCompact =>
    \A k \in 1..Len(Batches) :
      \A i \in 1..Len(Batches[k].p_y_x_t) :
        LET w     == Batches[k].p_y_x_t[i]
            delta == Sub64(ExactNs(Source(Batches, k, i)), Batches[k].time_base)
        IN  /\ UnpackDt(w) = <<delta[1], delta[2], 0, 0>>
            /\ UnpackX(w) = Source(Batches, k, i).x
            /\ UnpackY(w) = Source(Batches, k, i).y
            /\ UnpackPolarity(w) = Source(Batches, k, i).p

\* An event 2^32 + 704 ns after its batch's time base is stored with dt = 704.
C10_Witness ==
  /\ IsCompact
  /\ \E k \in 1..Len(Batches) :
       \E i \in 1..Len(Batches[k].p_y_x_t) :
         /\ Sub64(ExactNs(Source(Batches, k, i)), Batches[k].time_base) = <<704, 0, 1, 0>>
         /\ UnpackDt(Batches[k].p_y_x_t[i]) = <<704, 0, 0, 0>>

\* ------------------------------------------------------------------------
\* C11.  A publish call made while nobody subscribes discards its slice:
\* nothing is emitted, no batch is opened, an open batch, the sequence
\* counter, the per-polarity counters and the sent counters stay as they
\* were; at most t0_ changes, and only from unset (0) to a clock reading.
\* ------------------------------------------------------------------------
Discarding == delivered' # delivered /\ accepted' = accepted

C11_Step ==
  Discarding =>
    /\ UNCHANGED <<msg_, seq_, eventCount, eventsSent, msgsSent, published>>
    /\ t0_' # t0_ => t0_ = U64Zero

C11_DiscardWithoutSubscriber == [][C11_Step]_vars

\* A slice has been discarded while a batch was open and t0_ was set.
C11_Witness ==
  /\ msg_ # <<>>
  /\ t0_ # U64Zero
  /\ accepted # <<>>
  /\ accepted[Len(accepted)].pos < delivered

\* ------------------------------------------------------------------------
\* C12.  t0_ is set to the clock reading during the first publish call of
\* the run, with or without a subscriber, and no later publish call changes
\* it: once a call has been made, t0_ keeps its value.
\* Refuted: 0 is both "unset" and a possible clock reading.
\* ------------------------------------------------------------------------
C12_Original == [][delivered > 0 => t0_' = t0_]_vars

\* ------------------------------------------------------------------------
\* C13.  Compact: an event whose coordinate exceeds its field (y >= 2^15 or
\* x >= 2^16) is never packed into a word, so every packed word decodes to
\* the polarity, y and x of the event it was packed from.
\* Refuted: PackWord shifts whatever y it is given, and bit 15 of y lands on
\* the polarity bit.
\* ------------------------------------------------------------------------
C13_Original ==
  packOut # <<>> =>
    /\ packIn.y < 2 ^ 15
    /\ packIn.x < 2 ^ 16
    /\ UnpackPolarity(packOut[1]) = packIn.p
    /\ UnpackY(packOut[1]) = packIn.y
    /\ UnpackX(packOut[1]) = packIn.x

\* ------------------------------------------------------------------------
\* C14.  start() rejects a degenerate configuration: with
\* message_time_threshold <= 0 or a reservation size of 0 the constructor
\* throws, so no publish call ever runs with such a configuration.
\* Refuted: start() stores both values unexamined.
\* ------------------------------------------------------------------------
C14_Original == delivered > 0 => (messageTimeThreshold_ > 0 /\ reserveSize_ > 0)

\* ------------------------------------------------------------------------
\* C15.  A publish call with an empty slice and a subscriber present never
\* emits a batch and never reads the first or last event of an empty batch
\* or slice, whether a batch was open or not.
\* Refuted: both versions read the first and last event without testing n.
\* ------------------------------------------------------------------------
C15_Original ==
  /\ ub = 0
  /\ \A k \in 1..Len(published) : Len(Events(published[k])) > 0

\* ------------------------------------------------------------------------
\* C16.  Compact: in every batch the top-level field seq equals header.seq.
\* Refuted: seq is assigned from seq_ after header.seq = seq_++ has advanced
\* the counter, so it is one more than header.seq.
\* ------------------------------------------------------------------------
C16_Original ==
  IsCompact => \A k \in 1..Len(Batches) : Batches[k].mseq = Batches[k].seq

\* ------------------------------------------------------------------------
\* C17.  The sequence counter advances only in a call that creates a new
\* batch, and then by one.  When a publish call has returned, the number of
\* sequence numbers given out equals the number of batches emitted (the
\* messages-sent count) plus one if a batch is open; the messages-sent count
\* grows by exactly one per emitted batch.
\* ------------------------------------------------------------------------
C17_Counts ==
  /\ seq_ = msgsSent + Len(msg_)
  /\ msgsSent = Len(published)

C17_Step ==
  /\ seq_' # seq_ =>
       /\ seq_' = seq_ + 1
       /\ msg_ = <<>>
       /\ Len(Batches') = Len(Batches) + 1
  /\ Len(published') - Len(published) \in {0, 1}
  /\ msgsSent' - msgsSent = Len(published') - Len(published)

C17_SeqCountsBatches == []C17_Counts /\ [][C17_Step]_vars

\* One batch emitted and a second one open: two sequence numbers given out.
C17_Witness ==
  /\ msgsSent = 1
  /\ msg_ # <<>>
  /\ seq_ = 2
  /\ msg_[1].seq = 1

\* ------------------------------------------------------------------------
\* C18.  When a publish call with a non-empty slice has returned there is at
\* most one open batch; an open batch is non-empty, the reference its span
\* is measured from is the absolute timestamp of its first event, and its
\* last event's timestamp is at most that reference plus
\* messageTimeThreshold_.
\* ------------------------------------------------------------------------
C18_OpenBatchWithinThreshold ==
  /\ Len(msg_) <= 1
  /\ msg_ # <<>> =>
       LET k == Len(Batches)
           n == Len(Events(msg_[1]))
       IN  /\ n > 0
           /\ IF IsVerbose
              THEN Near(BatchStamp(msg_[1]), ExactNs(Source(Batches, k, 1)))
              ELSE BatchStamp(msg_[1]) = ExactNs(Source(Batches, k, 1))
           /\ Le64(EventNs(Batches, k, n), Add64(BatchStamp(msg_[1]), Threshold))

\* An open batch of several events whose last event lies exactly
\* messageTimeThreshold_ after the first.
C18_Witness ==
  /\ msg_ # <<>>
  /\ Len(Events(msg_[1])) >= 2
  /\ EventNs(Batches, Len(Batches), Len(Events(msg_[1]))) = Add64(BatchStamp(msg_[1]), Threshold)

\* ------------------------------------------------------------------------
\* C19.  Given the same calls (same non-empty slices, same subscriber
\* presence, same t0, same threshold) the Verbose and the Compact driver
\* emit batches in the same calls, with the same header seq, the same header
\* stamp and the same number of events, and every Compact word decodes
\* (time_base + dt, for spans below 2^32 ns) to the x, y, polarity and
\* absolute timestamp of the corresponding Verbose event.
\* Refuted: the Verbose timestamps are computed in double precision.
\* ------------------------------------------------------------------------
ShortSpan(v, i) ==
  LET span == Sub64(v.events[i].ts, v.events[1].ts)
  IN  span[3] = 0 /\ span[4] = 0

C19_Original ==
  /\ Len(published) = Len(twin.published)
  /\ \A k \in 1..Len(published) :
       k <= Len(twin.published) =>
         LET v == published[k]
             c == twin.published[k]
         IN  /\ v.seq = c.seq
             /\ v.stamp = c.stamp
             /\ Len(v.events) = Len(c.p_y_x_t)
             /\ \A i \in 1..Len(v.events) :
                  (i <= Len(c.p_y_x_t) /\ ShortSpan(v, i)) =>
                    /\ UnpackX(c.p_y_x_t[i]) = v.events[i].x
                    /\ UnpackY(c.p_y_x_t[i]) = v.events[i].y
                    /\ UnpackPolarity(c.p_y_x_t[i]) = v.events[i].polarity
                    /\ Add64(c.time_base, UnpackDt(c.p_y_x_t[i])) = v.events[i].ts

\* ------------------------------------------------------------------------
\* C20.  If a subscriber stays present and non-empty slices keep arriving
\* with growing timestamps, every event appended to a batch is eventually
\* handed to the transport in an emitted batch: no open batch stays open
\* forever, and once it is emitted every accepted event has been sent.
\* ------------------------------------------------------------------------
C20_EventuallyEmitted ==
  (msg_ # <<>>) ~> (msg_ = <<>> /\ published # <<>> /\ eventsSent = Len(accepted))

\* A batch that was kept open over three calls has been emitted.
C20_Witness ==
  /\ msg_ = <<>>
  /\ \E k \in 1..Len(published) : Len(Events(published[k])) >= 4
  /\ eventsSent = Len(accepted)

====
